---- MODULE Spec2Model ----
(***************************************************************************)
(* Model of the connection/client registry of blue-flame                   *)
(* (src/firebase/adminAppFactory.ts) together with the secret-store part   *)
(* of GoogleAuthProvider it reads from.                                    *)
(*                                                                         *)
(* The extension host runs single-threaded: an async function runs         *)
(* atomically from one `await` to the next.  Every action below is one     *)
(* such run-to-next-await segment of one call ("task").                    *)
(***************************************************************************)
EXTENDS Integers, Sequences, FiniteSets, TLC

(* ------------------------------ bounds --------------------------------- *)
\* number of registry calls issued in one behaviour
MaxTasks == 3
\* number of sign-ins (createSession) in one behaviour
MaxSessions == 1
\* number of addConnection commands run in one behaviour
MaxAdds == 2
\* number of WebviewBase objects constructed in one behaviour
MaxObjects == 3
\* number of vscode.WebviewPanels created in one behaviour
MaxPanels == 3
\* document ids of a collection: 1..MaxDocs, in ascending document-id order
MaxDocs == 5
\* the blue-flame.pageSize setting: 1..MaxPageSize
MaxPageSize == 3

\* Next presses on one collection table
MaxPresses == 3
\* loadPage requests of one collection table in flight
MaxPending == 2
\* tokens of one segment of a document path
MaxSegLen == 2
\* segments of a document path
MaxSegments == 2
(* --------------------------- strings ----------------------------------- *)
\* Strings that are concatenated or prefix-tested are sequences of tokens.
DefaultDb == <<"(default)">>
Colon == <<":">>

StartsWith(s, p) == Len(s) >= Len(p) /\ SubSeq(s, 1, Len(p)) = p

(* --------------------------- connections ------------------------------- *)
KeyPath == "/keys/sa.json"

ConnA == [id |-> <<"A">>, projectId |-> "proj-a", databaseId |-> DefaultDb,
          authMode |-> "adc", serviceAccountPath |-> ""]
ConnS == [id |-> <<"S">>, projectId |-> "proj-s", databaseId |-> DefaultDb,
          authMode |-> "serviceAccountPath", serviceAccountPath |-> KeyPath]
ConnO == [id |-> <<"O">>, projectId |-> "proj-o", databaseId |-> DefaultDb,
          authMode |-> "googleOAuth", serviceAccountPath |-> ""]

\* a second Google OAuth connection, of another project
ConnP == [id |-> <<"P">>, projectId |-> "proj-p", databaseId |-> DefaultDb,
          authMode |-> "googleOAuth", serviceAccountPath |-> ""]

\* a connection whose id is the id of ConnA followed by ":x"
ConnAX == [id |-> <<"A", ":", "x">>, projectId |-> "proj-ax",
           databaseId |-> DefaultDb, authMode |-> "adc",
           serviceAccountPath |-> ""]

\* a service-account connection whose optional serviceAccountPath is not set
ConnE == [id |-> <<"E">>, projectId |-> "proj-e", databaseId |-> DefaultDb,
          authMode |-> "serviceAccountPath", serviceAccountPath |-> ""]

Connections == {ConnA, ConnS, ConnO}
ConnIds == {c.id : c \in Connections}

NoConn == [id |-> <<>>, projectId |-> "", databaseId |-> <<>>,
           authMode |-> "none", serviceAccountPath |-> ""]

\* what fs.existsSync / fs.readFileSync / JSON.parse find at a key path when
\* getApp looks: the file system belongs to the environment
FileStates == {"missing", "valid", "malformed"}

Tasks == 1..MaxTasks

VARIABLES
    appCache,          \* Map<string, App>: connection id -> handle
    firestoreCache,    \* Map<string, Firestore>, in insertion order: <<[key, val]>>
    oauthClientCache,  \* Map<string, OAuth2Client>: connection id -> handle
    authProvider,      \* _authProvider is set
    clients,           \* every client object constructed so far, by handle
    secret,            \* context.secrets[SESSIONS_SECRET_KEY]: 0 or a refresh token
    sessions,          \* GoogleAuthProvider._sessions (session ids)
    nSessions,         \* sign-ins so far
    tasks,             \* the registry calls: position and locals of each
    lastIssued,        \* the call the last step issued (0: it issued none)
    store,             \* globalState["blue-flame.connections"]: Connection[]
    wizard,            \* the addConnection command in progress: position, answers
    panels,            \* WebviewBase.panels: panelKey -> panel object
    objects,           \* the WebviewBase objects constructed: [key, panel]
    wpanels,           \* the vscode.WebviewPanels created: [key, owner, open]
    pager,             \* the documents listing of an expanded collection node
    flow,              \* the OAuth sign-in in progress: callback server, state, code
    table,             \* the collection table webview: its script's variables
    fsp                \* a document opened through the blueflame: file system

\* the registry and the auth provider
registryVars == <<appCache, firestoreCache, oauthClientCache, authProvider,
                  clients, secret, sessions, nSessions, tasks, lastIssued>>
\* the settings store, the commands and the views
uiVars == <<store, wizard, panels, objects, wpanels, pager, flow, table, fsp>>

vars == <<appCache, firestoreCache, oauthClientCache, authProvider, clients,
          secret, sessions, nSessions, tasks, lastIssued, store, wizard,
          panels, objects, wpanels, pager, flow, table, fsp>>

(* ------------------------------ maps ----------------------------------- *)
EmptyMap == [x \in {} |-> 0]
MapHas(m, k) == k \in DOMAIN m
MapSet(m, k, v) == [x \in (DOMAIN m) \cup {k} |-> IF x = k THEN v ELSE m[x]]
MapDel(m, k) == [x \in (DOMAIN m) \ {k} |-> m[x]]

\* insertion-ordered Map: position of a key (0 when absent)
OIndex(m, k) ==
    IF \E i \in 1..Len(m) : m[i].key = k
    THEN CHOOSE i \in 1..Len(m) : m[i].key = k
    ELSE 0
OHas(m, k) == OIndex(m, k) # 0
OGet(m, k) == m[OIndex(m, k)].val
\* Map.set keeps the position of an existing key and appends a new one
OSet(m, k, v) ==
    IF OHas(m, k)
    THEN [m EXCEPT ![OIndex(m, k)] = [key |-> k, val |-> v]]
    ELSE Append(m, [key |-> k, val |-> v])
ORemoveAt(m, p) == SubSeq(m, 1, p - 1) \o SubSeq(m, p + 1, Len(m))
ODel(m, k) == IF OHas(m, k) THEN ORemoveAt(m, OIndex(m, k)) ELSE m

(* ----------------------------- clients --------------------------------- *)
\* kind: "app" (admin.initializeApp), "oauth" (new OAuth2Client),
\*       "data" (new Firestore / getFirestore)
\* via: the handle the client was built from (0: none); token: refresh token
\* closed: its shutdown hook (app.delete / firestore.terminate) was invoked
\* cred: "cert" | "adc" | "oauth"; projectId: the project it is bound to
NewClient(kind, id, db, via, token, cred, projectId) ==
    [kind |-> kind, id |-> id, db |-> db, via |-> via, token |-> token,
     cred |-> cred, projectId |-> projectId, closed |-> FALSE]
Handles == 1..Len(clients)
Close(cl, h) == [cl EXCEPT ![h].closed = TRUE]

(* ------------------- settings store, commands, views ------------------- *)
\* no addConnection command is running; n: the commands run so far
IdleWizard ==
    [pc |-> "idle", n |-> 0, name |-> "", projectId |-> "", authMode |-> "",
     serviceAccountPath |-> "", databaseId |-> ""]

\* no collection node is expanded
IdlePager ==
    [pc |-> "idle", coll |-> {}, pageSize |-> 0, cursor |-> 0, page |-> <<>>,
     hasMore |-> FALSE, visited |-> <<>>]

\* the connections of the model are those the settings store holds at
\* activation; no command is running and no view is open
\* no sign-in is in progress
IdleFlow == [pc |-> "idle", state |-> "", code |-> "", reqState |-> "",
             reqPath |-> ""]
\* no collection table is open
ClosedTable ==
    [pc |-> "closed", coll |-> {}, pageSize |-> 0, fields |-> <<>>,
     domRows |-> FALSE, currentDocs |-> <<>>, rows |-> <<>>, hasMore |-> FALSE,
     nextEnabled |-> FALSE, prevEnabled |-> FALSE, pageStack |-> <<>>,
     sortField |-> "", sortDirection |-> "asc", pending |-> <<>>,
     shown |-> <<>>, presses |-> 0, plain |-> TRUE]
\* no document is open
IdleFsp == [pc |-> "idle", connectionId |-> <<>>, docPath |-> <<>>,
            uri |-> <<>>, parsed |-> <<>>]

InitUi ==
    /\ store = <<ConnA, ConnS, ConnO>>
    /\ wizard = IdleWizard
    /\ panels = EmptyMap
    /\ objects = <<>>
    /\ wpanels = <<>>
    /\ pager = IdlePager
    /\ flow = IdleFlow
    /\ table = ClosedTable
    /\ fsp = IdleFsp

(* ------------------------------ tasks ---------------------------------- *)
\* op, c: the call and its argument; pc: where it is suspended
\* h, tok, ret, it, key, pend, failed: its locals
\* res, err, io: what it returned or threw, and the I/O and hooks it invoked
\* fstate, sec, snap, seen, before: what the call met, kept for the properties:
\*   the key file's state and the stored secret at the call, the cache
\*   entries a disposal found, the calls settled before this one was issued
\*   and before it settled
IdleTask ==
    [op |-> "none", pc |-> "idle", c |-> NoConn, h |-> 0, tok |-> 0,
     ret |-> "", it |-> 0, key |-> <<>>, pend |-> {}, failed |-> FALSE,
     res |-> 0, err |-> "", io |-> {}, fstate |-> "n/a", sec |-> 0,
     snap |-> {}, seen |-> {}, before |-> {}]

Init ==
    /\ appCache = EmptyMap
    /\ firestoreCache = <<>>
    /\ oauthClientCache = EmptyMap
    /\ authProvider = FALSE
    /\ clients = <<>>
    /\ secret = 0
    /\ sessions = <<>>
    /\ nSessions = 0
    /\ tasks = [t \in Tasks |-> IdleTask]
    /\ lastIssued = 0
    /\ InitUi


\* The secret store outlives the extension host: the refresh token an earlier
\* run stored (sign-ins of this run are numbered from 1)
PriorToken == MaxSessions + 1

\* activation with whatever an earlier run left in the secret store
InitRestored ==
    /\ appCache = EmptyMap
    /\ firestoreCache = <<>>
    /\ oauthClientCache = EmptyMap
    /\ authProvider = FALSE
    /\ clients = <<>>
    /\ secret \in {0, PriorToken}
    /\ sessions = <<>>
    /\ nSessions = 0
    /\ tasks = [t \in Tasks |-> IdleTask]
    /\ lastIssued = 0
    /\ InitUi

(* ----------------------- adminAppFactory.ts ---------------------------- *)
\* a cache key made of the connection id alone
cacheKeyIdOnly(c) == c.id \o Colon

cacheKey(c) == c.id \o Colon \o c.databaseId

\* the databaseId a data client is bound to
EffectiveDb(c) ==
    IF c.databaseId # <<>> /\ c.databaseId # DefaultDb THEN c.databaseId
    ELSE DefaultDb

isOAuthConnection(c) == c.authMode = "googleOAuth"

AppResult(err, app, cache, cl, io) ==
    [err |-> err, app |-> app, appCache |-> cache, clients |-> cl, io |-> io]

\* admin.initializeApp({credential, projectId}, connection.id); appCache.set
InitializeApp(c, cache, cl, cred, io) ==
    LET h == Len(cl) + 1 IN
    AppResult("", h, MapSet(cache, c.id, h),
              Append(cl, NewClient("app", c.id, <<>>, 0, 0, cred, c.projectId)),
              io \cup {"initializeApp"})

\* getApp without the appCache lookup: every call initialises an app
GetAppNoCacheCheck(c, cache, cl, fstate) ==
    IF c.authMode = "googleOAuth"
    THEN AppResult("unsupported-mode", 0, cache, cl, {})
    ELSE IF c.authMode = "serviceAccountPath" /\ c.serviceAccountPath # ""
    THEN IF fstate = "missing"
         THEN AppResult("file-not-found", 0, cache, cl, {"fs.existsSync"})
         ELSE IF fstate = "malformed"
         THEN AppResult("malformed", 0, cache, cl,
                        {"fs.existsSync", "fs.readFileSync"})
         ELSE InitializeApp(c, cache, cl, "cert",
                            {"fs.existsSync", "fs.readFileSync"})
    ELSE InitializeApp(c, cache, cl, "adc", {})

\* getApp without the googleOAuth guard: an OAuth connection falls through to
\* the credential branches
GetAppNoOAuthGuard(c, cache, cl, fstate) ==
    IF MapHas(cache, c.id)
    THEN AppResult("", cache[c.id], cache, cl, {})
    ELSE IF c.authMode = "serviceAccountPath" /\ c.serviceAccountPath # ""
    THEN IF fstate = "missing"
         THEN AppResult("file-not-found", 0, cache, cl, {"fs.existsSync"})
         ELSE IF fstate = "malformed"
         THEN AppResult("malformed", 0, cache, cl,
                        {"fs.existsSync", "fs.readFileSync"})
         ELSE InitializeApp(c, cache, cl, "cert",
                            {"fs.existsSync", "fs.readFileSync"})
    ELSE InitializeApp(c, cache, cl, "adc", {})

\* getApp that falls back to ADC when the key file does not exist
GetAppMissingFallsBack(c, cache, cl, fstate) ==
    IF c.authMode = "googleOAuth"
    THEN AppResult("unsupported-mode", 0, cache, cl, {})
    ELSE IF MapHas(cache, c.id)
    THEN AppResult("", cache[c.id], cache, cl, {})
    ELSE IF c.authMode = "serviceAccountPath" /\ c.serviceAccountPath # ""
            /\ fstate # "missing"
    THEN IF fstate = "malformed"
         THEN AppResult("malformed", 0, cache, cl,
                        {"fs.existsSync", "fs.readFileSync"})
         ELSE InitializeApp(c, cache, cl, "cert",
                            {"fs.existsSync", "fs.readFileSync"})
    ELSE InitializeApp(c, cache, cl, "adc", {"fs.existsSync"})

\* getApp that initialises and caches the app before it looks at the key file
GetAppInitializesFirst(c, cache, cl, fstate) ==
    IF c.authMode = "googleOAuth"
    THEN AppResult("unsupported-mode", 0, cache, cl, {})
    ELSE IF MapHas(cache, c.id)
    THEN AppResult("", cache[c.id], cache, cl, {})
    ELSE IF c.authMode = "serviceAccountPath" /\ c.serviceAccountPath # ""
    THEN LET r == InitializeApp(c, cache, cl, "cert", {"fs.existsSync"}) IN
         IF fstate = "missing"
         THEN [r EXCEPT !.err = "file-not-found"]
         ELSE IF fstate = "malformed"
         THEN [r EXCEPT !.err = "malformed", !.io = @ \cup {"fs.readFileSync"}]
         ELSE [r EXCEPT !.io = @ \cup {"fs.readFileSync"}]
    ELSE InitializeApp(c, cache, cl, "adc", {})

\* getApp that loads a key file whatever the authMode
GetAppAlwaysLoadsKey(c, cache, cl, fstate) ==
    IF c.authMode = "googleOAuth"
    THEN AppResult("unsupported-mode", 0, cache, cl, {})
    ELSE IF MapHas(cache, c.id)
    THEN AppResult("", cache[c.id], cache, cl, {})
    ELSE IF fstate = "missing"
    THEN AppResult("file-not-found", 0, cache, cl, {"fs.existsSync"})
    ELSE IF fstate = "malformed"
    THEN AppResult("malformed", 0, cache, cl,
                   {"fs.existsSync", "fs.readFileSync"})
    ELSE InitializeApp(c, cache, cl, "cert",
                       {"fs.existsSync", "fs.readFileSync"})

\* getApp(connection): no await in its body, so it runs in one piece.
\* cache, cl, fstate: appCache, clients and the key file's state at the call.
GetApp(c, cache, cl, fstate) ==
    IF c.authMode = "googleOAuth"
    THEN AppResult("unsupported-mode", 0, cache, cl, {})
    ELSE IF MapHas(cache, c.id)
    THEN AppResult("", cache[c.id], cache, cl, {})
    ELSE IF c.authMode = "serviceAccountPath" /\ c.serviceAccountPath # ""
    THEN IF fstate = "missing"
         THEN AppResult("file-not-found", 0, cache, cl, {"fs.existsSync"})
         ELSE IF fstate = "malformed"
         THEN AppResult("malformed", 0, cache, cl,
                        {"fs.existsSync", "fs.readFileSync"})
         ELSE InitializeApp(c, cache, cl, "cert",
                            {"fs.existsSync", "fs.readFileSync"})
    ELSE InitializeApp(c, cache, cl, "adc", {})

\* firebase-admin getFirestore(app, databaseId): one Firestore per app and
\* database, created on first use
MemoFirestore(cl, app, db) ==
    IF \E h \in 1..Len(cl) : cl[h].kind = "data" /\ cl[h].via = app /\ cl[h].db = db
    THEN CHOOSE h \in 1..Len(cl) :
             cl[h].kind = "data" /\ cl[h].via = app /\ cl[h].db = db
    ELSE 0

(* ------------------------- task bookkeeping ---------------------------- *)
\* calls are issued one after the other; task t is the next unused slot
CanStart(t) ==
    /\ authProvider
    /\ tasks[t].pc = "idle"
    /\ \A u \in Tasks : u < t => tasks[u].pc # "idle"

DoneTasks == {u \in Tasks : tasks[u].pc = "done"}

Begin(op, c) ==
    [IdleTask EXCEPT !.op = op, !.c = c, !.seen = DoneTasks,
                     !.sec = IF isOAuthConnection(c) THEN secret ELSE 0]
\* a settled call keeps its operation, argument, outcome and the I/O it did
Settled(tk) ==
    [IdleTask EXCEPT !.op = tk.op, !.pc = "done", !.c = tk.c, !.io = tk.io,
                     !.fstate = tk.fstate, !.sec = tk.sec, !.snap = tk.snap,
                     !.seen = tk.seen, !.before = DoneTasks]
Fail(tk, err, io) == [Settled(tk) EXCEPT !.err = err, !.io = @ \cup io]
Return(tk, res, io) == [Settled(tk) EXCEPT !.res = res, !.io = @ \cup io]

\* getOAuthClient up to its first await.  The secret is read by the
\* secrets.get issued inside getRefreshToken, at the call.
OAuthClientCall(tk, retpc) ==
    IF MapHas(oauthClientCache, tk.c.id)
    THEN [tk EXCEPT !.pc = retpc, !.h = oauthClientCache[tk.c.id]]
    ELSE IF ~authProvider
    THEN Fail(tk, "provider-not-initialized", {})
    ELSE [tk EXCEPT !.pc = "goc_token", !.tok = secret, !.ret = retpc,
                    !.io = @ \cup {"secrets.get"}]

\* the key file's state when a call was issued for a connection with a path
MetState(c, fstate) == IF c.serviceAccountPath # "" THEN fstate ELSE "n/a"

(* ------------------------ getFirestoreClient --------------------------- *)
\* lines 79-92 / 109: cache check, then getOAuthClient or getApp up to the await
StartGetFirestoreClient(t, c, fstate) ==
    /\ lastIssued' = t
    /\ UNCHANGED uiVars
    /\ CanStart(t)
    /\ LET tk == [Begin("getFirestoreClient", c) EXCEPT
                     !.fstate = MetState(c, fstate)] IN
       IF OHas(firestoreCache, cacheKey(c))
       THEN /\ tasks' = [tasks EXCEPT ![t] =
                            Return(tk, OGet(firestoreCache, cacheKey(c)), {})]
            /\ UNCHANGED <<appCache, clients>>
       ELSE IF c.authMode = "googleOAuth"
       THEN /\ tasks' = [tasks EXCEPT ![t] = OAuthClientCall(tk, "gfc_oauth")]
            /\ UNCHANGED <<appCache, clients>>
       ELSE LET r == GetApp(c, appCache, clients, fstate) IN
            /\ appCache' = r.appCache
            /\ clients' = r.clients
            /\ tasks' = [tasks EXCEPT ![t] =
                   IF r.err # "" THEN Fail(tk, r.err, r.io)
                   ELSE [tk EXCEPT !.pc = "gfc_app", !.h = r.app, !.io = r.io]]
    /\ UNCHANGED <<firestoreCache, oauthClientCache, authProvider, secret,
                   sessions, nSessions>>

\* getOAuthClient lines 37-55, resumed with the refresh token
ResumeRefreshToken(t) ==
    /\ lastIssued' = 0
    /\ UNCHANGED uiVars
    /\ tasks[t].pc = "goc_token"
    /\ LET tk == tasks[t] IN
       IF tk.tok = 0
       THEN /\ tasks' = [tasks EXCEPT ![t] = Fail(tk, "not-signed-in", {})]
            /\ UNCHANGED <<oauthClientCache, clients>>
       ELSE LET h == Len(clients) + 1 IN
            /\ clients' = Append(clients,
                   NewClient("oauth", tk.c.id, <<>>, 0, tk.tok, "oauth", ""))
            /\ oauthClientCache' = MapSet(oauthClientCache, tk.c.id, h)
            /\ tasks' = [tasks EXCEPT ![t] =
                   [tk EXCEPT !.pc = tk.ret, !.h = h]]
    /\ UNCHANGED <<appCache, firestoreCache, authProvider, secret, sessions,
                   nSessions>>

\* lines 93-107, 118-119: new GoogleAuth, new Firestore, firestoreCache.set
ResumeOAuthFirestore(t) ==
    /\ lastIssued' = 0
    /\ UNCHANGED uiVars
    /\ tasks[t].pc = "gfc_oauth"
    /\ LET tk == tasks[t]
           h == Len(clients) + 1 IN
       /\ clients' = Append(clients,
              NewClient("data", tk.c.id, EffectiveDb(tk.c), tk.h,
                        clients[tk.h].token, "oauth", tk.c.projectId))
       /\ firestoreCache' = OSet(firestoreCache, cacheKey(tk.c), h)
       /\ tasks' = [tasks EXCEPT ![t] = Return(tk, h, {})]
    /\ UNCHANGED <<appCache, oauthClientCache, authProvider, secret, sessions,
                   nSessions>>

\* lines 110-119: getFirestore(app[, databaseId]), firestoreCache.set.
\* deleted: getFirestore on an app whose delete() was called may throw.
ResumeAppFirestore(t, deleted) ==
    /\ lastIssued' = 0
    /\ UNCHANGED uiVars
    /\ tasks[t].pc = "gfc_app"
    /\ deleted => clients[tasks[t].h].closed
    /\ LET tk == tasks[t]
           memo == MemoFirestore(clients, tk.h, EffectiveDb(tk.c))
           h == IF memo # 0 THEN memo ELSE Len(clients) + 1 IN
       IF deleted
       THEN /\ tasks' = [tasks EXCEPT ![t] = Fail(tk, "app-deleted", {})]
            /\ UNCHANGED <<clients, firestoreCache>>
       ELSE /\ clients' =
                  IF memo # 0 THEN clients
                  ELSE Append(clients,
                          NewClient("data", tk.c.id, EffectiveDb(tk.c), tk.h, 0,
                                    clients[tk.h].cred, clients[tk.h].projectId))
            /\ firestoreCache' = OSet(firestoreCache, cacheKey(tk.c), h)
            /\ tasks' = [tasks EXCEPT ![t] = Return(tk, h, {})]
    /\ UNCHANGED <<appCache, oauthClientCache, authProvider, secret, sessions,
                   nSessions>>

(* ------------------------------ getApp --------------------------------- *)
StartGetApp(t, c, fstate) ==
    /\ lastIssued' = t
    /\ UNCHANGED uiVars
    /\ CanStart(t)
    /\ LET r == GetApp(c, appCache, clients, fstate)
           tk == [Begin("getApp", c) EXCEPT !.fstate = MetState(c, fstate)] IN
       /\ appCache' = r.appCache
       /\ clients' = r.clients
       /\ tasks' = [tasks EXCEPT ![t] =
              IF r.err # "" THEN Fail(tk, r.err, r.io) ELSE Return(tk, r.app, r.io)]
    /\ UNCHANGED <<firestoreCache, oauthClientCache, authProvider, secret,
                   sessions, nSessions>>

(* --------------------------- getAccessToken ---------------------------- *)
\* getAccessToken without its authMode guard
StartGetAccessTokenNoGuard(t, c) ==
    /\ lastIssued' = t
    /\ UNCHANGED uiVars
    /\ CanStart(t)
    /\ tasks' = [tasks EXCEPT ![t] =
           OAuthClientCall(Begin("getAccessToken", c), "gat_client")]
    /\ UNCHANGED <<appCache, firestoreCache, oauthClientCache, authProvider,
                   clients, secret, sessions, nSessions>>

\* lines 58-63
StartGetAccessToken(t, c) ==
    /\ lastIssued' = t
    /\ UNCHANGED uiVars
    /\ CanStart(t)
    /\ LET tk == Begin("getAccessToken", c) IN
       tasks' = [tasks EXCEPT ![t] =
           IF ~isOAuthConnection(c) THEN Fail(tk, "unsupported-mode", {})
           ELSE OAuthClientCall(tk, "gat_client")]
    /\ UNCHANGED <<appCache, firestoreCache, oauthClientCache, authProvider,
                   clients, secret, sessions, nSessions>>

\* getAccessToken that drops the stored session before it asks for a token
ResumeOAuthClientClearsSecret(t) ==
    /\ lastIssued' = 0
    /\ UNCHANGED uiVars
    /\ tasks[t].pc = "gat_client"
    /\ tasks' = [tasks EXCEPT ![t] =
           [@ EXCEPT !.pc = "gat_token", !.io = @ \cup {"token-endpoint"}]]
    /\ secret' = 0
    /\ UNCHANGED <<appCache, firestoreCache, oauthClientCache, authProvider,
                   clients, sessions, nSessions>>

\* line 65: client.getAccessToken() is called (a token-endpoint request)
ResumeOAuthClient(t) ==
    /\ lastIssued' = 0
    /\ UNCHANGED uiVars
    /\ tasks[t].pc = "gat_client"
    /\ tasks' = [tasks EXCEPT ![t] =
           [@ EXCEPT !.pc = "gat_token", !.io = @ \cup {"token-endpoint"}]]
    /\ UNCHANGED <<appCache, firestoreCache, oauthClientCache, authProvider,
                   clients, secret, sessions, nSessions>>

\* lines 65-76: the token response, a null token or a rejected refresh
ResumeTokenResponse(t, outcome) ==
    /\ lastIssued' = 0
    /\ UNCHANGED uiVars
    /\ tasks[t].pc = "gat_token"
    /\ LET tk == tasks[t] IN
       tasks' = [tasks EXCEPT ![t] =
           IF outcome = "token" THEN Return(tk, clients[tk.h].token, {})
           ELSE IF outcome = "null" THEN Fail(tk, "null-token", {})
           ELSE Fail(tk, "refresh-failed", {})]
    /\ UNCHANGED <<appCache, firestoreCache, oauthClientCache, authProvider,
                   clients, secret, sessions, nSessions>>

(* ------------------------- disposeConnection --------------------------- *)
\* the entries of the three caches, as (cache, key, handle)
Entries ==
    {[kind |-> "app", key |-> id, h |-> appCache[id]] : id \in DOMAIN appCache}
    \cup {[kind |-> "fs", key |-> firestoreCache[i].key, h |-> firestoreCache[i].val] :
              i \in 1..Len(firestoreCache)}
    \cup {[kind |-> "oauth", key |-> id, h |-> oauthClientCache[id]] :
              id \in DOMAIN oauthClientCache}
\* the entries that hold a client of connection id
EntriesOf(id) == {x \in Entries : clients[x.h].id = id}

\* the loop of disposeConnection without its startsWith filter
NextMatchAnyKey(cache, it, id) ==
    IF it + 1 <= Len(cache) THEN it + 1 ELSE 0

\* firestoreCache.keys() is a live iterator: `it` counts the entries it has
\* passed.  The next entry after `it` whose key starts with `${id}:` (0: none)
NextMatch(cache, it, id) ==
    LET M == {i \in (it + 1)..Len(cache) : StartsWith(cache[i].key, id \o Colon)} IN
    IF M = {} THEN 0 ELSE CHOOSE i \in M : \A j \in M : i <= j

\* an entry at position p left the Map: iterators past it move down with it
AdjustIterators(ts, p) ==
    [u \in Tasks |->
        IF ts[u].pc = "dc_fs" /\ p # 0 /\ ts[u].it >= p
        THEN [ts[u] EXCEPT !.it = @ - 1] ELSE ts[u]]

\* disposeConnection returns: to its caller, or into the removeConnection
\* command that awaited it (commands/index.ts line 263)
Disposed(tk) ==
    IF tk.op = "removeConnection" THEN [tk EXCEPT !.pc = "rc_store"]
    ELSE Return(tk, 0, {})

\* lines 172-183 from iterator position tk.it up to the next await or the end
DisposeLoop(t, ts, tk, cache, cl, oc) ==
    LET i == NextMatch(cache, tk.it, tk.c.id) IN
    IF i # 0
    THEN /\ clients' = Close(cl, cache[i].val)
         /\ oauthClientCache' = oc
         /\ tasks' = [ts EXCEPT ![t] =
                [tk EXCEPT !.pc = "dc_fs", !.it = i, !.key = cache[i].key,
                           !.h = cache[i].val, !.io = @ \cup {"fs.terminate"}]]
    ELSE /\ clients' = cl
         /\ oauthClientCache' = MapDel(oc, tk.c.id)
         /\ tasks' = [ts EXCEPT ![t] = Disposed(tk)]

\* lines 163-167, or 163-176 when no app is cached
StartDisposeConnection(t, id) ==
    /\ lastIssued' = t
    /\ UNCHANGED uiVars
    /\ CanStart(t)
    /\ LET tk == [Begin("disposeConnection", [NoConn EXCEPT !.id = id]) EXCEPT
                     !.snap = EntriesOf(id)] IN
       IF MapHas(appCache, id)
       THEN /\ clients' = Close(clients, appCache[id])
            /\ tasks' = [tasks EXCEPT ![t] =
                   [tk EXCEPT !.pc = "dc_app", !.h = appCache[id],
                              !.io = {"app.delete"}]]
            /\ UNCHANGED oauthClientCache
       ELSE DisposeLoop(t, tasks, tk, firestoreCache, clients, oauthClientCache)
    /\ UNCHANGED <<appCache, firestoreCache, authProvider, secret, sessions,
                   nSessions>>

\* lines 167-176: app.delete() settled; ok = FALSE: it rejected
ResumeAppDelete(t, ok) ==
    /\ lastIssued' = 0
    /\ UNCHANGED uiVars
    /\ tasks[t].pc = "dc_app"
    /\ LET tk == tasks[t] IN
       IF ~ok
       THEN /\ tasks' = [tasks EXCEPT ![t] = Fail(tk, "shutdown-failed", {})]
            /\ UNCHANGED <<appCache, clients, oauthClientCache>>
       ELSE /\ appCache' = MapDel(appCache, tk.c.id)
            /\ DisposeLoop(t, tasks, [tk EXCEPT !.it = 0], firestoreCache,
                           clients, oauthClientCache)
    /\ UNCHANGED <<firestoreCache, authProvider, secret, sessions, nSessions>>

\* lines 176-183: fs.terminate() settled; ok = FALSE: it rejected
ResumeTerminate(t, ok) ==
    /\ lastIssued' = 0
    /\ UNCHANGED uiVars
    /\ tasks[t].pc = "dc_fs"
    /\ LET tk == tasks[t] IN
       IF ~ok
       THEN /\ tasks' = [tasks EXCEPT ![t] = Fail(tk, "shutdown-failed", {})]
            /\ UNCHANGED <<firestoreCache, clients, oauthClientCache>>
       ELSE LET p == OIndex(firestoreCache, tk.key)
                ts == AdjustIterators(tasks, p) IN
            /\ firestoreCache' = ODel(firestoreCache, tk.key)
            /\ DisposeLoop(t, ts, ts[t], ODel(firestoreCache, tk.key),
                           clients, oauthClientCache)
    /\ UNCHANGED <<appCache, authProvider, secret, sessions, nSessions>>

(* ------------------- the removeConnection command --------------------- *)
StoredIds == {store[i].id : i \in 1..Len(store)}

\* commands/index.ts lines 261-263: the removal is confirmed and
\* disposeConnection(connectionId) runs up to its first await
StartRemoveConnection(t, id) ==
    /\ lastIssued' = t
    /\ CanStart(t)
    /\ id \in StoredIds
    /\ LET tk == [Begin("removeConnection", [NoConn EXCEPT !.id = id]) EXCEPT
                     !.snap = EntriesOf(id)] IN
       IF MapHas(appCache, id)
       THEN /\ clients' = Close(clients, appCache[id])
            /\ tasks' = [tasks EXCEPT ![t] =
                   [tk EXCEPT !.pc = "dc_app", !.h = appCache[id],
                              !.io = {"app.delete"}]]
            /\ UNCHANGED oauthClientCache
       ELSE DisposeLoop(t, tasks, tk, firestoreCache, clients, oauthClientCache)
    /\ UNCHANGED <<appCache, firestoreCache, authProvider, secret, sessions,
                   nSessions, uiVars>>

\* line 264 and storage/connections.ts lines 23-25: disposeConnection has
\* returned; ConnectionStorage.remove filters the list and updates globalState
ResumeRemoveStored(t) ==
    /\ lastIssued' = 0
    /\ tasks[t].pc = "rc_store"
    /\ store' = SelectSeq(store, LAMBDA c : c.id # tasks[t].c.id)
    /\ tasks' = [tasks EXCEPT ![t] = [@ EXCEPT !.pc = "rc_update"]]
    /\ UNCHANGED <<appCache, firestoreCache, oauthClientCache, authProvider,
                   clients, secret, sessions, nSessions, wizard, panels,
                   objects, wpanels, pager, flow, table, fsp>>

\* lines 265-267: the update settled; the tree is refreshed and the command
\* completes
FinishRemoveConnection(t) ==
    /\ lastIssued' = 0
    /\ tasks[t].pc = "rc_update"
    /\ tasks' = [tasks EXCEPT ![t] = Return(@, 0, {"globalState.update"})]
    /\ UNCHANGED <<appCache, firestoreCache, oauthClientCache, authProvider,
                   clients, secret, sessions, nSessions, uiVars>>

(* ----------------------------- disposeAll ------------------------------ *)
CloseAll(cl, H) == [h \in 1..Len(cl) |-> IF h \in H THEN [cl[h] EXCEPT !.closed = TRUE] ELSE cl[h]]

\* lines 186-199: both map() calls run every callback up to its await, so
\* every cached app.delete() and fs.terminate() is called at once
StartDisposeAll(t) ==
    /\ lastIssued' = t
    /\ UNCHANGED uiVars
    /\ CanStart(t)
    /\ LET tk == [Begin("disposeAll", NoConn) EXCEPT !.snap = Entries]
           apps == {[kind |-> "app", key |-> id, h |-> appCache[id]] :
                       id \in DOMAIN appCache}
           fss == {[kind |-> "fs", key |-> firestoreCache[i].key,
                    h |-> firestoreCache[i].val] : i \in 1..Len(firestoreCache)}
           pend == apps \cup fss IN
       /\ clients' = CloseAll(clients, {x.h : x \in pend})
       /\ IF pend = {}
          THEN /\ oauthClientCache' = EmptyMap
               /\ tasks' = [tasks EXCEPT ![t] = Return(tk, 0, {})]
          ELSE /\ UNCHANGED oauthClientCache
               /\ tasks' = [tasks EXCEPT ![t] =
                      [tk EXCEPT !.pc = "da_wait", !.pend = pend,
                          !.io = {IF x.kind = "app" THEN "app.delete"
                                  ELSE "fs.terminate" : x \in pend}]]
    /\ UNCHANGED <<appCache, firestoreCache, authProvider, secret, sessions,
                   nSessions>>

\* lines 190-191 / 195-196 for one entry, and lines 199-201 after the last:
\* Promise.all rejects when an entry's hook rejected, and then
\* oauthClientCache.clear() is not reached
ResumeDisposeAll(t, x, ok) ==
    /\ lastIssued' = 0
    /\ UNCHANGED uiVars
    /\ tasks[t].pc = "da_wait"
    /\ x \in tasks[t].pend
    /\ LET tk == tasks[t]
           p == IF ok /\ x.kind = "fs" THEN OIndex(firestoreCache, x.key) ELSE 0
           ts == AdjustIterators(tasks, p)
           failed == tk.failed \/ ~ok
           rest == tk.pend \ {x} IN
       /\ appCache' = IF ok /\ x.kind = "app" THEN MapDel(appCache, x.key)
                      ELSE appCache
       /\ firestoreCache' = IF ok /\ x.kind = "fs" THEN ODel(firestoreCache, x.key)
                            ELSE firestoreCache
       /\ oauthClientCache' = IF rest = {} /\ ~failed THEN EmptyMap
                              ELSE oauthClientCache
       /\ tasks' = [ts EXCEPT ![t] =
              IF rest # {} THEN [tk EXCEPT !.pend = rest, !.failed = failed]
              ELSE IF failed
              THEN Fail([tk EXCEPT !.pend = rest, !.failed = failed],
                        "shutdown-failed", {})
              ELSE Return([tk EXCEPT !.pend = rest], 0, {})]
    /\ UNCHANGED <<authProvider, clients, secret, sessions, nSessions>>

(* ------------------------- GoogleAuthProvider -------------------------- *)
\* createSession that keeps a session already stored instead of replacing it
CreateSessionKeepsFirst ==
    /\ lastIssued' = 0
    /\ UNCHANGED uiVars
    /\ authProvider
    /\ nSessions < MaxSessions
    /\ nSessions' = nSessions + 1
    /\ sessions' = Append(sessions, nSessions + 1)
    /\ secret' = IF secret = 0 THEN nSessions + 1 ELSE secret
    /\ UNCHANGED <<appCache, firestoreCache, oauthClientCache, authProvider,
                   clients, tasks>>

\* createSession lines 84-85: the session is listed and stored with its
\* refresh token under SESSIONS_SECRET_KEY
CreateSession ==
    /\ lastIssued' = 0
    /\ UNCHANGED uiVars
    /\ authProvider
    /\ nSessions < MaxSessions
    /\ nSessions' = nSessions + 1
    /\ sessions' = Append(sessions, nSessions + 1)
    /\ secret' = nSessions + 1
    /\ UNCHANGED <<appCache, firestoreCache, oauthClientCache, authProvider,
                   clients, tasks>>

\* removeSession lines 98-100
RemoveSession(sid) ==
    /\ lastIssued' = 0
    /\ UNCHANGED uiVars
    /\ authProvider
    /\ sessions' = SelectSeq(sessions, LAMBDA s : s # sid)
    /\ secret' = 0
    /\ UNCHANGED <<appCache, firestoreCache, oauthClientCache, authProvider,
                   clients, nSessions, tasks>>

\* _restoreSessions lines 239-249: the one stored session, listed again.  A
\* session and its refresh token carry the number of the sign-in.
RestoredSessions == IF secret = 0 THEN <<>> ELSE <<secret>>

\* getSessions lines 55-62, called without scopes: an empty list is first
\* restored from the secret store
GetSessions ==
    /\ lastIssued' = 0
    /\ UNCHANGED uiVars
    /\ authProvider
    /\ sessions' = IF sessions = <<>> THEN RestoredSessions ELSE sessions
    /\ UNCHANGED <<appCache, firestoreCache, oauthClientCache, authProvider,
                   clients, secret, nSessions, tasks>>

\* extension.ts activate(): setAuthProvider(new GoogleAuthProvider(context))
Activate ==
    /\ lastIssued' = 0
    /\ UNCHANGED uiVars
    /\ ~authProvider
    /\ authProvider' = TRUE
    /\ UNCHANGED <<appCache, firestoreCache, oauthClientCache, clients, secret,
                   sessions, nSessions, tasks>>

Next ==
    \/ Activate
    \/ \E t \in Tasks, c \in Connections, f \in FileStates :
           StartGetFirestoreClient(t, c, f)
    \/ \E t \in Tasks : ResumeRefreshToken(t)
    \/ \E t \in Tasks : ResumeOAuthFirestore(t)
    \/ \E t \in Tasks, deleted \in BOOLEAN : ResumeAppFirestore(t, deleted)
    \/ \E t \in Tasks, c \in Connections, f \in FileStates : StartGetApp(t, c, f)
    \/ \E t \in Tasks, c \in Connections : StartGetAccessToken(t, c)
    \/ \E t \in Tasks : ResumeOAuthClient(t)
    \/ \E t \in Tasks, o \in {"token", "null", "error"} : ResumeTokenResponse(t, o)
    \/ \E t \in Tasks, id \in ConnIds : StartDisposeConnection(t, id)
    \/ \E t \in Tasks, ok \in BOOLEAN : ResumeAppDelete(t, ok)
    \/ \E t \in Tasks, ok \in BOOLEAN : ResumeTerminate(t, ok)
    \/ \E t \in Tasks : StartDisposeAll(t)
    \/ \E t \in Tasks, ok \in BOOLEAN :
           \E x \in tasks[t].pend : ResumeDisposeAll(t, x, ok)
    \/ CreateSession
    \/ \E sid \in 1..MaxSessions : RemoveSession(sid)

Spec == Init /\ [][Next]_vars

\* The registry used with service-account and ADC connections only
AdminConnections == {c \in Connections : ~isOAuthConnection(c)}

NextAdmin ==
    \/ Activate
    \/ \E t \in Tasks, c \in AdminConnections, f \in FileStates :
           StartGetFirestoreClient(t, c, f)
    \/ \E t \in Tasks, deleted \in BOOLEAN : ResumeAppFirestore(t, deleted)
    \/ \E t \in Tasks, c \in AdminConnections, f \in FileStates :
           StartGetApp(t, c, f)
    \/ \E t \in Tasks, c \in AdminConnections : StartGetAccessToken(t, c)
    \/ \E t \in Tasks, c \in AdminConnections : StartDisposeConnection(t, c.id)
    \/ \E t \in Tasks, ok \in BOOLEAN : ResumeAppDelete(t, ok)
    \/ \E t \in Tasks, ok \in BOOLEAN : ResumeTerminate(t, ok)
    \/ \E t \in Tasks : StartDisposeAll(t)
    \/ \E t \in Tasks, ok \in BOOLEAN :
           \E x \in tasks[t].pend : ResumeDisposeAll(t, x, ok)

SpecAdmin == Init /\ [][NextAdmin]_vars

\* The registry used with Google OAuth connections only
OAuthConnections == {c \in Connections : isOAuthConnection(c)}

NextOAuth ==
    \/ Activate
    \/ \E t \in Tasks, c \in OAuthConnections :
           StartGetFirestoreClient(t, c, "missing")
    \/ \E t \in Tasks : ResumeRefreshToken(t)
    \/ \E t \in Tasks : ResumeOAuthFirestore(t)
    \/ \E t \in Tasks, c \in OAuthConnections : StartGetApp(t, c, "missing")
    \/ \E t \in Tasks, c \in OAuthConnections : StartGetAccessToken(t, c)
    \/ \E t \in Tasks : ResumeOAuthClient(t)
    \/ \E t \in Tasks, o \in {"token", "null", "error"} : ResumeTokenResponse(t, o)
    \/ \E t \in Tasks, c \in OAuthConnections : StartDisposeConnection(t, c.id)
    \/ \E t \in Tasks, ok \in BOOLEAN : ResumeTerminate(t, ok)
    \/ \E t \in Tasks : StartDisposeAll(t)
    \/ \E t \in Tasks, ok \in BOOLEAN :
           \E x \in tasks[t].pend : ResumeDisposeAll(t, x, ok)
    \/ CreateSession
    \/ \E sid \in 1..MaxSessions : RemoveSession(sid)

SpecOAuth == Init /\ [][NextOAuth]_vars

\* the cache life cycle of an OAuth connection: data clients are resolved and
\* disposed and getApp is called while the user signs in and out
NextOAuthCache ==
    \/ Activate
    \/ \E t \in Tasks, c \in OAuthConnections :
           StartGetFirestoreClient(t, c, "missing")
    \/ \E t \in Tasks : ResumeRefreshToken(t)
    \/ \E t \in Tasks : ResumeOAuthFirestore(t)
    \/ \E t \in Tasks, c \in OAuthConnections : StartGetApp(t, c, "missing")
    \/ \E t \in Tasks, c \in OAuthConnections : StartDisposeConnection(t, c.id)
    \/ \E t \in Tasks, ok \in BOOLEAN : ResumeTerminate(t, ok)
    \/ CreateSession
    \/ \E sid \in 1..MaxSessions : RemoveSession(sid)

SpecOAuthCache == Init /\ [][NextOAuthCache]_vars

\* Two Google OAuth connections resolved while the user signs in and out,
\* starting from what an earlier run stored
OAuthPair == {ConnO, ConnP}

NextIdentity ==
    \/ Activate
    \/ \E t \in Tasks, c \in OAuthPair : StartGetFirestoreClient(t, c, "missing")
    \/ \E t \in Tasks : ResumeRefreshToken(t)
    \/ \E t \in Tasks : ResumeOAuthFirestore(t)
    \/ CreateSession
    \/ \E sid \in 1..MaxSessions : RemoveSession(sid)

SpecIdentity == InitRestored /\ [][NextIdentity]_vars

\* One Google OAuth connection is resolved and asked for access tokens while
\* the user signs out and signs in again, starting from what an earlier run
\* stored
NextReSignIn ==
    \/ Activate
    \/ \E t \in Tasks : StartGetFirestoreClient(t, ConnO, "missing")
    \/ \E t \in Tasks : ResumeRefreshToken(t)
    \/ \E t \in Tasks : ResumeOAuthFirestore(t)
    \/ \E t \in Tasks : StartGetAccessToken(t, ConnO)
    \/ \E t \in Tasks : ResumeOAuthClient(t)
    \/ \E t \in Tasks, o \in {"token", "null", "error"} : ResumeTokenResponse(t, o)
    \/ CreateSession
    \/ \E sid \in 1..MaxSessions : RemoveSession(sid)

SpecReSignIn == InitRestored /\ [][NextReSignIn]_vars

\* The sessions of the provider are listed, created and removed, by any
\* session id, while an OAuth connection asks for access tokens
SessionIds == 1..PriorToken

NextSessions ==
    \/ Activate
    \/ GetSessions
    \/ CreateSession
    \/ \E sid \in SessionIds : RemoveSession(sid)
    \/ \E t \in Tasks : StartGetAccessToken(t, ConnO)
    \/ \E t \in Tasks : ResumeRefreshToken(t)
    \/ \E t \in Tasks : ResumeOAuthClient(t)
    \/ \E t \in Tasks, o \in {"token", "null", "error"} : ResumeTokenResponse(t, o)

SpecSessions == InitRestored /\ [][NextSessions]_vars

(* --------------------- the addConnection command ---------------------- *)
\* crypto.randomUUID() of the n-th command: distinct for distinct n and
\* distinct from the ids already stored
Uuid(n) == <<"uuid-" \o ToString(n)>>

OtherKeyPath == "/keys/other.json"
\* what the user may answer.  "" and <<>>: the prompt was dismissed (or, for
\* the database prompt, left empty); validateInput refuses blank names and
\* project ids
NameInputs == {"", "My DB"}
ProjectInputs == {"", "proj-n"}
ModeInputs == {"", "googleOAuth", "adc", "serviceAccountPath"}
FileInputs == {<<>>, <<KeyPath>>, <<OtherKeyPath>>}
DatabaseInputs == {<<>>, DefaultDb, <<"db2">>}

\* lines 157-159: the command starts and asks for the name
StartAddConnection ==
    /\ authProvider
    /\ wizard.pc = "idle"
    /\ wizard.n < MaxAdds
    /\ wizard' = [IdleWizard EXCEPT !.pc = "name", !.n = wizard.n + 1]
    /\ UNCHANGED <<registryVars, store, panels, objects, wpanels, pager, flow, table, fsp>>

\* lines 159-166
WizardName(v) ==
    /\ wizard.pc = "name"
    /\ wizard' = IF v = "" THEN [IdleWizard EXCEPT !.n = wizard.n]
                  ELSE [wizard EXCEPT !.pc = "project", !.name = v]
    /\ UNCHANGED <<registryVars, store, panels, objects, wpanels, pager, flow, table, fsp>>

\* lines 166-173
WizardProject(v) ==
    /\ wizard.pc = "project"
    /\ wizard' = IF v = "" THEN [IdleWizard EXCEPT !.n = wizard.n]
                  ELSE [wizard EXCEPT !.pc = "mode", !.projectId = v]
    /\ UNCHANGED <<registryVars, store, panels, objects, wpanels, pager, flow, table, fsp>>

\* the mode prompt of a wizard that never asks for the key file
WizardModeSkipsFile(m) ==
    /\ wizard.pc = "mode"
    /\ wizard' = IF m = "" THEN [IdleWizard EXCEPT !.n = wizard.n]
                  ELSE [wizard EXCEPT !.authMode = m,
                           !.pc = IF m = "googleOAuth" THEN "signin" ELSE "database"]
    /\ UNCHANGED <<registryVars, store, panels, objects, wpanels, pager, flow, table, fsp>>

\* lines 173-185, 195-198, 210: the mode is picked and the next prompt shown
WizardMode(m) ==
    /\ wizard.pc = "mode"
    /\ wizard' = IF m = "" THEN [IdleWizard EXCEPT !.n = wizard.n]
                  ELSE [wizard EXCEPT !.authMode = m,
                           !.pc = IF m = "serviceAccountPath" THEN "file"
                                  ELSE IF m = "googleOAuth" THEN "signin"
                                  ELSE "database"]
    /\ UNCHANGED <<registryVars, store, panels, objects, wpanels, pager, flow, table, fsp>>

\* lines 185-193, 210: the open dialog returned
WizardFiles(files) ==
    /\ wizard.pc = "file"
    /\ wizard' = IF Len(files) = 0 THEN [IdleWizard EXCEPT !.n = wizard.n]
                  ELSE [wizard EXCEPT !.pc = "database",
                                      !.serviceAccountPath = files[1]]
    /\ UNCHANGED <<registryVars, store, panels, objects, wpanels, pager, flow, table, fsp>>

\* lines 198-210: authentication.getSession(..., {createIfNone: true})
\* returned a session (the stored one, or one createSession just made) or
\* threw
WizardSignIn(ok) ==
    /\ wizard.pc = "signin"
    /\ ok /\ secret = 0 => nSessions < MaxSessions
    /\ wizard' = IF ok THEN [wizard EXCEPT !.pc = "database"]
                  ELSE [IdleWizard EXCEPT !.n = wizard.n]
    /\ IF ok /\ secret = 0
       THEN /\ nSessions' = nSessions + 1
            /\ sessions' = Append(sessions, nSessions + 1)
            /\ secret' = nSessions + 1
       ELSE UNCHANGED <<nSessions, sessions, secret>>
    /\ lastIssued' = lastIssued
    /\ UNCHANGED <<appCache, firestoreCache, oauthClientCache, authProvider,
                   clients, tasks, store, panels, objects, wpanels, pager, flow, table, fsp>>

\* lines 210-225 and storage/connections.ts lines 17-20: the record is built
\* and ConnectionStorage.add pushes it; databaseId?.trim() || "(default)"
WizardDatabase(v) ==
    /\ wizard.pc = "database"
    /\ store' = Append(store,
           [id |-> Uuid(wizard.n), projectId |-> wizard.projectId,
            databaseId |-> IF v = <<>> THEN DefaultDb ELSE v,
            authMode |-> wizard.authMode,
            serviceAccountPath |-> wizard.serviceAccountPath])
    /\ wizard' = [wizard EXCEPT !.pc = "saving"]
    /\ UNCHANGED <<registryVars, panels, objects, wpanels, pager, flow, table, fsp>>

\* lines 225-228: globalState.update settled; the tree is refreshed
WizardSaved ==
    /\ wizard.pc = "saving"
    /\ wizard' = [IdleWizard EXCEPT !.n = wizard.n]
    /\ UNCHANGED <<registryVars, store, panels, objects, wpanels, pager, flow, table, fsp>>

NextAdd ==
    \/ Activate
    \/ StartAddConnection
    \/ \E v \in NameInputs : WizardName(v)
    \/ \E v \in ProjectInputs : WizardProject(v)
    \/ \E m \in ModeInputs : WizardMode(m)
    \/ \E f \in FileInputs : WizardFiles(f)
    \/ \E ok \in BOOLEAN : WizardSignIn(ok)
    \/ \E v \in DatabaseInputs : WizardDatabase(v)
    \/ WizardSaved

SpecAdd == Init /\ [][NextAdd]_vars

(* --------------------------- WebviewBase ------------------------------- *)
PanelKeys == {"collection:A:users", "document:A:users/u1"}

\* new XPanel(..., panelKey): the constructor stores its arguments
Construct(k) ==
    /\ authProvider
    /\ Len(objects) < MaxObjects
    /\ objects' = Append(objects, [key |-> k, panel |-> 0])
    /\ UNCHANGED <<registryVars, store, wizard, panels, wpanels, pager, flow, table, fsp>>

\* show(), lines 17-53
Show(o) ==
    /\ o \in 1..Len(objects)
    /\ LET k == objects[o].key
           existing == IF MapHas(panels, k) THEN panels[k] ELSE 0 IN
       IF existing # 0 /\ objects[existing].panel # 0
       THEN /\ wpanels' = [wpanels EXCEPT ![objects[existing].panel].revealed = TRUE]
            /\ UNCHANGED <<objects, panels>>
       ELSE /\ Len(wpanels) < MaxPanels
            /\ wpanels' = Append(wpanels, [key |-> k, owner |-> o, open |-> TRUE,
                                           hooked |-> TRUE, revealed |-> FALSE])
            /\ objects' = [objects EXCEPT ![o].panel = Len(wpanels) + 1]
            /\ panels' = MapSet(panels, k, o)
    /\ UNCHANGED <<registryVars, store, wizard, pager, flow, table, fsp>>

\* dispose(), lines 91-97, of object o, with wp the panels as they are at the
\* call: the registry entry of the key is deleted, the object's panel is
\* disposed (its onDidDispose listener re-enters dispose, which finds nothing
\* left to do), and the object's listeners are dropped
DisposeObject(o, wp) ==
    /\ panels' = MapDel(panels, objects[o].key)
    /\ wpanels' = [p \in 1..Len(wp) |->
           IF wp[p].owner # o THEN wp[p]
           ELSE [wp[p] EXCEPT !.hooked = FALSE,
                              !.open = @ /\ p # objects[o].panel]]
    /\ objects' = [objects EXCEPT ![o].panel = 0]

Dispose(o) ==
    /\ o \in 1..Len(objects)
    /\ DisposeObject(o, wpanels)
    /\ UNCHANGED <<registryVars, store, wizard, pager, flow, table, fsp>>

\* the user closes panel p: the panel is disposed and onDidDispose calls the
\* dispose() of the object that created it, if that listener is still there
UserClose(p) ==
    /\ p \in 1..Len(wpanels)
    /\ wpanels[p].open
    /\ LET wp == [wpanels EXCEPT ![p].open = FALSE] IN
       IF wpanels[p].hooked
       THEN DisposeObject(wpanels[p].owner, wp)
       ELSE wpanels' = wp /\ UNCHANGED <<objects, panels>>
    /\ UNCHANGED <<registryVars, store, wizard, pager, flow, table, fsp>>

NextWebview ==
    \/ Activate
    \/ \E k \in PanelKeys : Construct(k)
    \/ \E o \in 1..MaxObjects : Show(o)
    \/ \E o \in 1..MaxObjects : Dispose(o)
    \/ \E p \in 1..MaxPanels : UserClose(p)

SpecWebview == Init /\ [][NextWebview]_vars

(* ----------------- FirestoreService.listDocuments --------------------- *)
DocIds == 1..MaxDocs
PageSizes == 1..MaxPageSize

RECURSIVE Ascending(_)
\* orderBy(FieldPath.documentId()): the documents in ascending id order
Ascending(S) ==
    IF S = {} THEN <<>>
    ELSE LET m == CHOOSE d \in S : \A e \in S : d <= e IN
         <<m>> \o Ascending(S \ {m})

\* limit(n)
Limit(docs, n) == SubSeq(docs, 1, IF n < Len(docs) THEN n ELSE Len(docs))

PageResult(docs, hasMore) == [docs |-> docs, hasMore |-> hasMore]

\* listDocuments that asks for pageSize documents only
ListDocumentsNoLookahead(coll, pageSize, startAfterDocId) ==
    LET after == IF startAfterDocId # 0
                 THEN {d \in coll : d > startAfterDocId} ELSE coll
        snapshot == Limit(Ascending(after), pageSize)
        hasMore == Len(snapshot) > pageSize IN
    PageResult(IF hasMore THEN SubSeq(snapshot, 1, pageSize) ELSE snapshot,
               hasMore)

\* part_006 lines 85-99.  startAfterDocId = 0: no cursor
ListDocuments(coll, pageSize, startAfterDocId) ==
    LET after == IF startAfterDocId # 0
                 THEN {d \in coll : d > startAfterDocId} ELSE coll
        snapshot == Limit(Ascending(after), pageSize + 1)
        hasMore == Len(snapshot) > pageSize IN
    PageResult(IF hasMore THEN SubSeq(snapshot, 1, pageSize) ELSE snapshot,
               hasMore)

\* getDocuments(connection, collectionPath): a collection node is expanded
\* and its first page listed
ExpandCollection(coll, pageSize) ==
    /\ authProvider
    /\ pager.pc = "idle"
    /\ LET r == ListDocuments(coll, pageSize, 0) IN
       pager' = [pc |-> "listed", coll |-> coll, pageSize |-> pageSize,
                 cursor |-> 0, page |-> r.docs, hasMore |-> r.hasMore,
                 visited |-> r.docs]
    /\ UNCHANGED <<registryVars, store, wizard, panels, objects, wpanels,
                   flow, table, fsp>>

\* firestoreExplorer.ts lines 149-152 and 78-83: the Load more node carries the
\* id of the last document of the page, and the next page is listed after it
LoadMore ==
    /\ pager.pc = "listed"
    /\ pager.hasMore
    /\ LET cursor == pager.page[Len(pager.page)]
           r == ListDocuments(pager.coll, pager.pageSize, cursor) IN
       pager' = [pager EXCEPT !.cursor = cursor, !.page = r.docs,
                              !.hasMore = r.hasMore,
                              !.visited = @ \o r.docs]
    /\ UNCHANGED <<registryVars, store, wizard, panels, objects, wpanels,
                   flow, table, fsp>>

\* the tree is refreshed: the listing is dropped
CollapseCollection ==
    /\ pager.pc = "listed"
    /\ pager' = IdlePager
    /\ UNCHANGED <<registryVars, store, wizard, panels, objects, wpanels,
                   flow, table, fsp>>

NextPaging ==
    \/ Activate
    \/ \E coll \in SUBSET DocIds, n \in PageSizes : ExpandCollection(coll, n)
    \/ LoadMore
    \/ CollapseCollection

SpecPaging == Init /\ [][NextPaging]_vars

(* ------------- one connection id, several databaseIds ------------------ *)
\* the databaseId of a stored record: the trimmed input of the wizard, or
\* "(default)" when that is empty
DatabaseIds == {DefaultDb, <<"db2">>, <<"db3">>}
\* records that share the id of ConnA, or of ConnO, and differ in databaseId
DatabaseVariants ==
    {[c EXCEPT !.databaseId = d] : c \in {ConnA, ConnO}, d \in DatabaseIds}

NextDatabases ==
    \/ Activate
    \/ \E t \in Tasks, c \in DatabaseVariants :
           StartGetFirestoreClient(t, c, "valid")
    \/ \E t \in Tasks : ResumeAppFirestore(t, FALSE)
    \/ \E t \in Tasks : ResumeRefreshToken(t)
    \/ \E t \in Tasks : ResumeOAuthFirestore(t)
    \/ CreateSession

SpecDatabases == Init /\ [][NextDatabases]_vars

(* --------- two connections, one id a prefix of the other -------------- *)
PrefixPair == {ConnA, ConnAX}

NextPrefix ==
    \/ Activate
    \/ \E t \in Tasks, c \in PrefixPair : StartGetFirestoreClient(t, c, "valid")
    \/ \E t \in Tasks, deleted \in BOOLEAN : ResumeAppFirestore(t, deleted)
    \/ \E t \in Tasks, c \in PrefixPair : StartDisposeConnection(t, c.id)
    \/ \E t \in Tasks, ok \in BOOLEAN : ResumeAppDelete(t, ok)
    \/ \E t \in Tasks, ok \in BOOLEAN : ResumeTerminate(t, ok)

SpecPrefix == Init /\ [][NextPrefix]_vars

(* ------------- resolution only: nothing is disposed ------------------- *)
\* data clients, admin clients and access tokens are resolved for the three
\* connections while the user signs in; the caches start empty
NextResolve ==
    \/ Activate
    \/ \E t \in Tasks, c \in Connections, f \in {"valid", "missing"} :
           StartGetFirestoreClient(t, c, f)
    \/ \E t \in Tasks : ResumeAppFirestore(t, FALSE)
    \/ \E t \in Tasks : ResumeRefreshToken(t)
    \/ \E t \in Tasks : ResumeOAuthFirestore(t)
    \/ \E t \in Tasks, c \in Connections, f \in {"valid", "missing"} :
           StartGetApp(t, c, f)
    \/ \E t \in Tasks, c \in Connections : StartGetAccessToken(t, c)
    \/ \E t \in Tasks : ResumeOAuthClient(t)
    \/ \E t \in Tasks, o \in {"token", "null", "error"} : ResumeTokenResponse(t, o)
    \/ CreateSession

SpecResolve == Init /\ [][NextResolve]_vars

(* ------- admin clients for connections with and without a path -------- *)
PathConnections == {ConnA, ConnS, ConnE}

NextPaths ==
    \/ Activate
    \/ \E t \in Tasks, c \in PathConnections, f \in FileStates :
           StartGetApp(t, c, f)
    \/ \E t \in Tasks, c \in PathConnections, f \in FileStates :
           StartGetFirestoreClient(t, c, f)
    \/ \E t \in Tasks : ResumeAppFirestore(t, FALSE)

SpecPaths == Init /\ [][NextPaths]_vars

(* ---------------------- the OAuth sign-in flow ------------------------- *)
\* crypto.randomUUID() of _performOAuthFlow line 125
GeneratedState == "state-1"
\* what a request to the loopback server may carry
RequestPaths == {"/callback", "/favicon.ico"}
RequestCodes == {"", "code-1", "code-x"}
RequestStates == {"", GeneratedState, "state-x"}

otherViews == <<store, wizard, panels, objects, wpanels, pager, table, fsp>>

\* createSession lines 69-71 and _performOAuthFlow lines 124-145: the
\* callback server listens, the state is generated, the browser is opened and
\* the flow awaits serverPromise
StartOAuthFlow ==
    /\ lastIssued' = 0
    /\ authProvider
    /\ flow.pc = "idle"
    /\ nSessions < MaxSessions
    /\ flow' = [IdleFlow EXCEPT !.pc = "waiting", !.state = GeneratedState]
    /\ UNCHANGED <<appCache, firestoreCache, oauthClientCache, authProvider,
                   clients, secret, sessions, nSessions, tasks, otherViews>>

\* _startCallbackServer lines 189-207: a request arrives while the server
\* listens.  A /callback request with a code resolves serverPromise with it;
\* one without a code rejects it; any other path is left unanswered.
CallbackRequest(path, code, state) ==
    /\ lastIssued' = 0
    /\ flow.pc = "waiting"
    /\ flow' = IF path # "/callback" THEN flow
               ELSE IF code # ""
               THEN [flow EXCEPT !.pc = "exchanging", !.code = code,
                                 !.reqState = state, !.reqPath = path]
               ELSE IdleFlow
    /\ UNCHANGED <<appCache, firestoreCache, oauthClientCache, authProvider,
                   clients, secret, sessions, nSessions, tasks, otherViews>>

\* lines 184-187: no callback within 120 seconds
CallbackTimeout ==
    /\ lastIssued' = 0
    /\ flow.pc = "waiting"
    /\ flow' = IdleFlow
    /\ UNCHANGED <<appCache, firestoreCache, oauthClientCache, authProvider,
                   clients, secret, sessions, nSessions, tasks, otherViews>>

\* _performOAuthFlow lines 147-174 and createSession lines 72-85: the code is
\* exchanged; with a refresh token the session is listed and stored
TokenExchange(ok) ==
    /\ lastIssued' = 0
    /\ flow.pc = "exchanging"
    /\ flow' = IdleFlow
    /\ IF ok
       THEN /\ nSessions' = nSessions + 1
            /\ sessions' = Append(sessions, nSessions + 1)
            /\ secret' = nSessions + 1
       ELSE UNCHANGED <<nSessions, sessions, secret>>
    /\ UNCHANGED <<appCache, firestoreCache, oauthClientCache, authProvider,
                   clients, tasks, otherViews>>

\* The user signs in through the browser while an OAuth connection asks for
\* access tokens
NextOAuthFlow ==
    \/ Activate
    \/ StartOAuthFlow
    \/ \E p \in RequestPaths, c \in RequestCodes, st \in RequestStates :
           CallbackRequest(p, c, st)
    \/ CallbackTimeout
    \/ \E ok \in BOOLEAN : TokenExchange(ok)
    \/ \E sid \in 1..MaxSessions : RemoveSession(sid)
    \/ \E t \in Tasks : StartGetAccessToken(t, ConnO)
    \/ \E t \in Tasks : ResumeRefreshToken(t)
    \/ \E t \in Tasks : ResumeOAuthClient(t)
    \/ \E t \in Tasks, o \in {"token", "null", "error"} : ResumeTokenResponse(t, o)

SpecOAuthFlow == Init /\ [][NextOAuthFlow]_vars

(* ---------------------- the collection table -------------------------- *)
\* the value of field "f" of a document: 0 when the document has no such
\* field, else a string
FieldValues == {0, 1}
\* the column headers: the document id and the field
SortFields == {"ID", "f"}

otherThanTable ==
    <<registryVars, store, wizard, panels, objects, wpanels, pager, flow, fsp>>

\* collection-table.js lines 219-233: the comparator of docs.sort
Compare(a, b, field, dir, fields) ==
    LET valA == IF field = "ID" THEN a ELSE fields[a]
        valB == IF field = "ID" THEN b ELSE fields[b]
        undefA == field # "ID" /\ valA = 0
        undefB == field # "ID" /\ valB = 0 IN
    IF valA = valB THEN 0
    ELSE IF undefA THEN 1
    ELSE IF undefB THEN 0 - 1
    ELSE IF valA < valB THEN (IF dir = "asc" THEN 0 - 1 ELSE 1)
    ELSE (IF dir = "asc" THEN 1 ELSE 0 - 1)

RECURSIVE SortDocs(_, _, _, _)
\* Array.prototype.sort with that comparator: a stable sort
SortDocs(docs, field, dir, fields) ==
    IF docs = <<>> THEN <<>>
    ELSE LET x == docs[Len(docs)]
             sorted == SortDocs(SubSeq(docs, 1, Len(docs) - 1), field, dir, fields)
             k == Cardinality({i \in 1..Len(sorted) :
                                  Compare(sorted[i], x, field, dir, fields) <= 0}) IN
         SubSeq(sorted, 1, k) \o <<x>> \o SubSeq(sorted, k + 1, Len(sorted))

\* renderTable(docs, hasMore), lines 208-297: an empty page replaces the
\* table by a note and returns; else the docs array is sorted in place, the
\* rows are written in that order and the buttons are set
RenderTable(tb, docs, hasMore) ==
    IF docs = <<>> THEN [tb EXCEPT !.currentDocs = docs, !.rows = <<>>]
    ELSE LET sorted == IF tb.sortField # ""
                       THEN SortDocs(docs, tb.sortField, tb.sortDirection, tb.fields)
                       ELSE docs IN
         [tb EXCEPT !.currentDocs = sorted, !.rows = sorted,
                    !.hasMore = hasMore,
                    !.prevEnabled = tb.pageStack # <<>>,
                    !.nextEnabled = hasMore]

\* document.querySelectorAll("#docTable tbody tr"), line 179.  The script
\* writes vscode-table-row elements and no element with id docTable; whether
\* the table component of the page offers matching rows is up to the
\* component (domRows)
MatchedRows(tb) == IF tb.domRows THEN tb.rows ELSE <<>>

\* collectionTablePanel.ts loadInitialPage lines 295-303: the panel is shown
\* and the first page is requested
OpenTable(n, pageSize, fields, domRows) ==
    /\ authProvider
    /\ table.pc = "closed"
    /\ table' = [ClosedTable EXCEPT !.pc = "open", !.coll = 1..n,
                                    !.pageSize = pageSize, !.fields = fields,
                                    !.domRows = domRows, !.pending = <<0>>]
    /\ UNCHANGED otherThanTable

\* handleMessage "loadPage" lines 241-266 (or loadInitialPage 299-316), then
\* the script's "pageLoaded" handler, lines 160-168
PageLoaded ==
    /\ table.pc = "open"
    /\ table.pending # <<>>
    /\ LET r == ListDocuments(table.coll, table.pageSize, Head(table.pending))
           tb == [table EXCEPT !.pending = Tail(@),
                               !.shown = IF table.plain THEN @ \o r.docs
                                         ELSE <<>>] IN
       table' = RenderTable(tb, r.docs, r.hasMore)
    /\ UNCHANGED otherThanTable

\* nextBtn click, lines 178-185
NextClick ==
    /\ table.pc = "open"
    /\ table.nextEnabled
    /\ table.presses < MaxPresses
    /\ Len(table.pending) < MaxPending
    /\ LET rows == MatchedRows(table)
           plain == table.plain /\ table.pending = <<>> IN
       table' = IF rows # <<>>
                THEN [table EXCEPT !.presses = @ + 1,
                          !.pageStack = Append(@, rows[Len(rows)]),
                          !.pending = Append(@, rows[Len(rows)]),
                          !.plain = plain,
                          !.shown = IF plain THEN @ ELSE <<>>]
                ELSE [table EXCEPT !.presses = @ + 1]
    /\ UNCHANGED otherThanTable

\* prevBtn click, lines 172-176
PrevClick ==
    /\ table.pc = "open"
    /\ table.prevEnabled
    /\ Len(table.pending) < MaxPending
    /\ LET stack == IF table.pageStack = <<>> THEN <<>>
                    ELSE SubSeq(table.pageStack, 1, Len(table.pageStack) - 1)
           startAfter == IF stack = <<>> THEN 0 ELSE stack[Len(stack)] IN
       table' = [table EXCEPT !.pageStack = stack,
                              !.pending = Append(@, startAfter),
                              !.plain = FALSE, !.shown = <<>>]
    /\ UNCHANGED otherThanTable

\* a click on a column header, lines 266-277; the headers are the id and
\* the fields found on the page (lines 163-166)
SortClick(field) ==
    /\ table.pc = "open"
    /\ table.rows # <<>>
    /\ field = "ID" \/ \E i \in 1..Len(table.rows) : table.fields[table.rows[i]] # 0
    /\ LET tb == IF field = table.sortField
                 THEN [table EXCEPT !.sortDirection =
                           IF @ = "asc" THEN "desc" ELSE "asc"]
                 ELSE [table EXCEPT !.sortField = field,
                                    !.sortDirection = "asc"] IN
       table' = RenderTable(tb, table.currentDocs, table.hasMore)
    /\ UNCHANGED otherThanTable

\* the panel is closed
CloseTable ==
    /\ table.pc = "open"
    /\ table' = ClosedTable
    /\ UNCHANGED otherThanTable

NextTable ==
    \/ Activate
    \/ \E n \in 0..MaxDocs, ps \in PageSizes, domRows \in BOOLEAN :
           \E fields \in [1..n -> FieldValues] : OpenTable(n, ps, fields, domRows)
    \/ PageLoaded
    \/ NextClick
    \/ PrevClick
    \/ \E f \in SortFields : SortClick(f)
    \/ CloseTable

SpecTable == Init /\ [][NextTable]_vars

(* ------------------- blueflame: document URIs -------------------------- *)
\* Strings are sequences of tokens: a letter, a dot, the five characters
\* ".json", and the separator "/".
Slash == <<"/">>
DotJson == <<".json">>
SegmentTokens == {"a", ".", ".json"}

otherThanFsp ==
    <<registryVars, store, wizard, panels, objects, wpanels, pager, flow, table>>

RECURSIVE TokenSeqs(_)
\* the non-empty strings of at most n tokens
TokenSeqs(n) ==
    IF n = 0 THEN {}
    ELSE LET shorter == TokenSeqs(n - 1) IN
         {<<t>> : t \in SegmentTokens}
         \cup shorter
         \cup {Append(q, t) : q \in shorter, t \in SegmentTokens}

\* Firestore document and collection ids: not empty, no "/", not "." or ".."
SegmentIds == TokenSeqs(MaxSegLen) \ {<<".">>, <<".", ".">>}
\* document paths: an even number of segments
PathLengths == {n \in 1..MaxSegments : n % 2 = 0}
DocPaths == UNION {[1..n -> SegmentIds] : n \in PathLengths}
\* connection ids: a UUID, and ids with a suffix or dots of their own
UriConnIds == {<<"a">>, <<"a", ".json">>, <<"a", ".", "a">>}

RECURSIVE JoinPath(_)
\* segments.join("/")
JoinPath(segs) ==
    IF segs = <<>> THEN <<>>
    ELSE IF Len(segs) = 1 THEN segs[1]
    ELSE segs[1] \o Slash \o JoinPath(Tail(segs))

RECURSIVE SplitPath(_, _)
\* s.split("/").filter(Boolean): cur is the part being read
SplitPath(s, cur) ==
    IF s = <<>> THEN (IF cur = <<>> THEN <<>> ELSE <<cur>>)
    ELSE IF Head(s) = "/"
    THEN (IF cur = <<>> THEN <<>> ELSE <<cur>>) \o SplitPath(Tail(s), <<>>)
    ELSE SplitPath(Tail(s), Append(cur, Head(s)))

\* s.includes(".."): a dot followed by a dot, which ".json" starts with
IncludesDotDot(s) ==
    \E i \in 1..(Len(s) - 1) : s[i] = "." /\ s[i + 1] \in {".", ".json"}

\* s.endsWith(".json")
EndsWithJson(s) == s # <<>> /\ s[Len(s)] = ".json"

\* buildDocumentUri, part_007 lines 35-37: the path of the Uri parsed from
\* `blueflame:/${connectionId}/${docPath}.json`
buildDocumentUri(connectionId, docPath) ==
    Slash \o connectionId \o Slash \o docPath \o DotJson

\* parseUri, lines 14-33
parseUri(uriPath) ==
    LET parts == SplitPath(uriPath, <<>>) IN
    IF Len(parts) < 2 THEN [err |-> "invalid-uri"]
    ELSE IF parts[1] = <<>> \/ IncludesDotDot(parts[1])
    THEN [err |-> "invalid-connection-id"]
    ELSE LET docPath == JoinPath(Tail(parts)) IN
         IF IncludesDotDot(docPath) THEN [err |-> "invalid-document-path"]
         ELSE [err |-> "", connectionId |-> parts[1],
               docPath |-> IF EndsWithJson(docPath)
                           THEN SubSeq(docPath, 1, Len(docPath) - 1)
                           ELSE docPath]

\* collectionTablePanel.ts lines 287-288 (and the tree's open command): the
\* URI of a document is built and handed to openTextDocument
OpenDocument(connectionId, segs) ==
    /\ authProvider
    /\ fsp.pc = "idle"
    /\ fsp' = [IdleFsp EXCEPT !.pc = "built", !.connectionId = connectionId,
                              !.docPath = JoinPath(segs),
                              !.uri = buildDocumentUri(connectionId, JoinPath(segs))]
    /\ UNCHANGED otherThanFsp

\* readFile, line 65: the URI is parsed
ReadFile ==
    /\ fsp.pc = "built"
    /\ fsp' = [fsp EXCEPT !.pc = "read", !.parsed = parseUri(fsp.uri)]
    /\ UNCHANGED otherThanFsp

\* the editor is closed
CloseDocument ==
    /\ fsp.pc = "read"
    /\ fsp' = IdleFsp
    /\ UNCHANGED otherThanFsp

NextUris ==
    \/ Activate
    \/ \E id \in UriConnIds, segs \in DocPaths : OpenDocument(id, segs)
    \/ ReadFile
    \/ CloseDocument

SpecUris == Init /\ [][NextUris]_vars

\* An admin connection is removed by the command while the tree and the
\* webviews resolve its clients
NextRemove ==
    \/ Activate
    \/ \E t \in Tasks, c \in AdminConnections, f \in FileStates :
           StartGetFirestoreClient(t, c, f)
    \/ \E t \in Tasks, deleted \in BOOLEAN : ResumeAppFirestore(t, deleted)
    \/ \E t \in Tasks, c \in AdminConnections, f \in FileStates :
           StartGetApp(t, c, f)
    \/ \E t \in Tasks, c \in AdminConnections : StartRemoveConnection(t, c.id)
    \/ \E t \in Tasks, ok \in BOOLEAN : ResumeAppDelete(t, ok)
    \/ \E t \in Tasks, ok \in BOOLEAN : ResumeTerminate(t, ok)
    \/ \E t \in Tasks : ResumeRemoveStored(t)
    \/ \E t \in Tasks : FinishRemoveConnection(t)

SpecRemove == Init /\ [][NextRemove]_vars

(* ======================== the properties =============================== *)
Done(t) == tasks[t].pc = "done"
Ok(t) == Done(t) /\ tasks[t].err = ""
IsCall(t, op) == Done(t) /\ tasks[t].op = op
\* the step issues call t
Issues(t) == tasks[t].pc = "idle" /\ tasks'[t].pc # "idle"
CachesUnchanged ==
    UNCHANGED <<appCache, firestoreCache, oauthClientCache, clients>>
Network == {"token-endpoint", "app.delete", "fs.terminate"}
FileIO == {"fs.existsSync", "fs.readFileSync"}

\* C1: getFirestoreClient calls for the same cache key that were in flight
\* together all get the same client or the same failure.
C1_SingleFlight ==
    \A t \in Tasks, u \in Tasks :
        (/\ t < u
         /\ IsCall(t, "getFirestoreClient") /\ IsCall(u, "getFirestoreClient")
         /\ cacheKey(tasks[t].c) = cacheKey(tasks[u].c)
         /\ t \notin tasks[u].seen)
        => tasks[t].res = tasks[u].res /\ tasks[t].err = tasks[u].err

\* C2: two getApp calls for the same non-OAuth connection issued in the same
\* turn have the same outcome: the same admin client, initialised by the first
\* call only.
C2_ConcurrentGetAppShareOneApp ==
    [][\A u \in Tasks :
          (/\ u > 1 /\ Issues(u) /\ lastIssued = u - 1
           /\ IsCall(u - 1, "getApp") /\ tasks'[u].op = "getApp"
           /\ tasks'[u].c = tasks[u - 1].c
           /\ tasks'[u].fstate = tasks[u - 1].fstate
           /\ ~isOAuthConnection(tasks[u - 1].c))
          => /\ tasks'[u].pc = "done"
             /\ tasks'[u].err = tasks[u - 1].err
             /\ tasks'[u].res = tasks[u - 1].res
             /\ "initializeApp" \notin tasks'[u].io
             /\ clients' = clients]_vars

\* C2's case: the first of two same-turn getApp calls initialised the app the
\* second one returned
C2_Witness ==
    \E u \in Tasks :
        /\ u > 1 /\ lastIssued = u
        /\ IsCall(u - 1, "getApp") /\ IsCall(u, "getApp")
        /\ tasks[u].c = tasks[u - 1].c
        /\ Ok(u) /\ Ok(u - 1)
        /\ tasks[u].res = tasks[u - 1].res
        /\ "initializeApp" \in tasks[u - 1].io

\* C3: no two clients of the same kind for the same connection (and, for data
\* clients, the same database) are live, i.e. constructed and not shut down.
C3_AtMostOneLiveClient ==
    \A h1 \in Handles, h2 \in Handles :
        (/\ h1 # h2
         /\ clients[h1].kind \in {"app", "data"}
         /\ clients[h1].kind = clients[h2].kind
         /\ clients[h1].id = clients[h2].id
         /\ clients[h1].db = clients[h2].db)
        => clients[h1].closed \/ clients[h2].closed

\* the credentials call u needed were there when it was issued
CredentialsAvailable(u) ==
    IF isOAuthConnection(tasks[u].c) THEN tasks[u].sec # 0
    ELSE tasks[u].fstate \in {"n/a", "valid"}

\* C4: a getFirestoreClient(c) issued after a disposeConnection(c.id) settled
\* succeeds when the credentials are available, with a client that no
\* getFirestoreClient returned before that disposal settled.
C4_FreshClientAfterDispose ==
    \A d \in Tasks, u \in Tasks :
        (/\ IsCall(d, "disposeConnection") /\ IsCall(u, "getFirestoreClient")
         /\ tasks[d].c.id = tasks[u].c.id
         /\ d \in tasks[u].seen)
        => /\ CredentialsAvailable(u) => Ok(u)
           /\ \A t \in tasks[d].before :
                  (IsCall(t, "getFirestoreClient") /\ Ok(t) /\ Ok(u))
                  => tasks[u].res # tasks[t].res

\* C5: when disposeAll has settled, none of the cache entries it found is
\* still cached.
C5_DisposeAllRemovesEveryEntry ==
    \A t \in Tasks :
        IsCall(t, "disposeAll") => tasks[t].snap \cap Entries = {}

\* C6: disposeConnection never raises, and when it has settled none of the
\* entries cached for the id is still cached.
C6_DisposeConnectionIsTotal ==
    \A t \in Tasks :
        IsCall(t, "disposeConnection")
        => tasks[t].err = "" /\ tasks[t].snap \cap Entries = {}

\* C7: getAccessToken on an OAuth connection issued while the secret store
\* holds no refresh token fails as not signed in and sends no token request.
C7_NoTokenWithoutStoredSecret ==
    \A t \in Tasks :
        (/\ IsCall(t, "getAccessToken")
         /\ isOAuthConnection(tasks[t].c)
         /\ tasks[t].sec = 0)
        => tasks[t].err = "not-signed-in" /\ "token-endpoint" \notin tasks[t].io

\* C8: getApp on a googleOAuth connection fails at once as unsupported, with
\* no file or network I/O, and changes no cache.
C8_GetAppRejectsOAuth ==
    [][\A t \in Tasks :
          (Issues(t) /\ tasks'[t].op = "getApp"
           /\ isOAuthConnection(tasks'[t].c))
          => /\ tasks'[t].pc = "done"
             /\ tasks'[t].err = "unsupported-mode"
             /\ tasks'[t].io = {}
             /\ CachesUnchanged]_vars

\* C8's case: getApp was refused for an OAuth connection whose credential and
\* data client are cached
C8_Witness ==
    \E t \in Tasks :
        /\ IsCall(t, "getApp") /\ isOAuthConnection(tasks[t].c)
        /\ tasks[t].err = "unsupported-mode"
        /\ MapHas(oauthClientCache, tasks[t].c.id)
        /\ OHas(firestoreCache, cacheKey(tasks[t].c))

\* C9: disposeConnection(id) while no cache holds an entry for id returns at
\* once without error, calls no shutdown hook and changes no cache.
C9_DisposeUnknownIsNoOp ==
    [][\A t \in Tasks :
          (Issues(t) /\ tasks'[t].op = "disposeConnection"
           /\ EntriesOf(tasks'[t].c.id) = {})
          => /\ tasks'[t].pc = "done"
             /\ tasks'[t].err = ""
             /\ tasks'[t].io = {}
             /\ CachesUnchanged]_vars

\* C9's case: an id was disposed, hooks and all, and then disposed again
\* while other entries were cached
C9_Witness ==
    \E t \in Tasks, u \in Tasks :
        /\ t < u
        /\ IsCall(t, "disposeConnection") /\ IsCall(u, "disposeConnection")
        /\ tasks[t].c.id = tasks[u].c.id
        /\ Ok(t) /\ tasks[t].io # {}
        /\ Ok(u) /\ tasks[u].io = {} /\ t \in tasks[u].seen

\* C10 as stated: getApp on a serviceAccountPath connection whose key file
\* does not exist fails as file-not-found, initialises no app and does no
\* network I/O.
C10_MissingFileAlwaysFails ==
    \A t \in Tasks :
        (/\ IsCall(t, "getApp")
         /\ tasks[t].c.authMode = "serviceAccountPath"
         /\ tasks[t].fstate = "missing")
        => /\ tasks[t].err = "file-not-found"
           /\ tasks[t].io \cap (Network \cup {"initializeApp"}) = {}

\* C10 amended: getApp on a serviceAccountPath connection whose key file does
\* not exist and for which no admin client is cached fails as file-not-found,
\* having only tested the file's existence, and changes no cache.
C10_MissingFileFailsOnCacheMiss ==
    [][\A t \in Tasks :
          (/\ Issues(t) /\ tasks'[t].op = "getApp"
           /\ tasks'[t].c.authMode = "serviceAccountPath"
           /\ tasks'[t].fstate = "missing"
           /\ ~MapHas(appCache, tasks'[t].c.id))
          => /\ tasks'[t].pc = "done"
             /\ tasks'[t].err = "file-not-found"
             /\ tasks'[t].io = {"fs.existsSync"}
             /\ CachesUnchanged]_vars

\* C10's case: a getApp call met a missing key file and failed
C10_Witness ==
    \E t \in Tasks :
        /\ IsCall(t, "getApp")
        /\ tasks[t].c.authMode = "serviceAccountPath"
        /\ tasks[t].fstate = "missing"
        /\ tasks[t].err = "file-not-found"
        /\ ~MapHas(appCache, tasks[t].c.id)

ResolveOps == {"getFirestoreClient", "getApp"}
DisposeOps == {"disposeConnection", "disposeAll"}
\* the failures of a resolve call that come from its credentials
CredentialCauses ==
    {"file-not-found", "malformed", "not-signed-in", "provider-not-initialized"}
\* the step settles call t
Settles(t) == tasks[t].pc # "done" /\ tasks'[t].pc = "done"
DisposalIssued == \E d \in Tasks : tasks[d].op \in DisposeOps

\* the credentials a call needed were there when it was issued
CredentialsMet(tk) ==
    IF isOAuthConnection(tk.c) THEN tk.sec # 0
    ELSE tk.fstate \in {"n/a", "valid"}

C12_GetAccessTokenRejectsAdmin ==
    [][\A t \in Tasks :
          (Issues(t) /\ tasks'[t].op = "getAccessToken"
           /\ tasks'[t].c.authMode \in {"adc", "serviceAccountPath"})
          => /\ tasks'[t].pc = "done"
             /\ tasks'[t].err = "unsupported-mode"
             /\ tasks'[t].io = {}
             /\ secret' = secret
             /\ CachesUnchanged]_vars

\* C12's case: getAccessToken was refused for a connection whose admin and
\* data clients are cached
C12_Witness ==
    \E t \in Tasks :
        /\ IsCall(t, "getAccessToken")
        /\ tasks[t].c.authMode \in {"adc", "serviceAccountPath"}
        /\ tasks[t].err = "unsupported-mode"
        /\ MapHas(appCache, tasks[t].c.id)
        /\ OHas(firestoreCache, cacheKey(tasks[t].c))

\* C14: getFirestoreClient on an adc connection whose databaseId is
\* "(default)" returns a data client bound to the connection's projectId and
\* the default database, built on the application-default credential, and the
\* call reads no file.
C14_AdcDataClient ==
    \A t \in Tasks :
        (/\ IsCall(t, "getFirestoreClient") /\ Ok(t)
         /\ tasks[t].c.authMode = "adc"
         /\ tasks[t].c.databaseId = DefaultDb)
        => /\ tasks[t].res \in Handles
           /\ clients[tasks[t].res].kind = "data"
           /\ clients[tasks[t].res].projectId = tasks[t].c.projectId
           /\ clients[tasks[t].res].db = DefaultDb
           /\ clients[tasks[t].res].cred = "adc"
           /\ tasks[t].io \cap FileIO = {}

\* C14's case: the data client of an adc connection was constructed by the
\* call, through a newly initialised admin client
C14_Witness ==
    \E t \in Tasks :
        /\ IsCall(t, "getFirestoreClient") /\ Ok(t)
        /\ tasks[t].c.authMode = "adc"
        /\ "initializeApp" \in tasks[t].io
        /\ clients[tasks[t].res].projectId = "proj-a"

OAuthIds == {c.id : c \in OAuthConnections}

\* C15: appCache never holds an entry for a googleOAuth connection, and no
\* admin client is ever constructed for one.
C15_NoAdminClientForOAuth ==
    /\ \A id \in DOMAIN appCache : id \notin OAuthIds
    /\ \A h \in Handles : clients[h].kind = "app" => clients[h].id \notin OAuthIds

\* C15's case: an OAuth connection's data client was resolved and getApp was
\* called for it, while an admin client of another connection is cached
C15_Witness ==
    /\ appCache # EmptyMap
    /\ \E t \in Tasks, u \in Tasks :
           /\ IsCall(t, "getFirestoreClient") /\ Ok(t)
           /\ isOAuthConnection(tasks[t].c)
           /\ IsCall(u, "getApp") /\ tasks[u].c = tasks[t].c

\* the refresh token stored last
LatestToken == IF nSessions = 0 THEN PriorToken ELSE nSessions

C16_RegistryNeverWritesSecret ==
    [][tasks' # tasks => secret' = secret]_vars

\* C16's case: with a refresh token stored, a call read it to build a client
\* and a disposal ran its shutdown hooks, and the token is still stored
C16_Witness ==
    /\ secret # 0
    /\ \E t \in Tasks, d \in Tasks :
           /\ IsCall(t, "getFirestoreClient") /\ Ok(t)
           /\ "secrets.get" \in tasks[t].io /\ tasks[t].sec = secret
           /\ tasks[d].op \in DisposeOps /\ Ok(d) /\ tasks[d].io # {}

\* C13: once a removeConnection command has completed, no cache holds an
\* entry for the removed connection and the settings store does not list it.
C13_RemovedConnectionLeavesNoEntry ==
    \A t \in Tasks :
        (IsCall(t, "removeConnection") /\ Ok(t))
        => /\ EntriesOf(tasks[t].c.id) = {}
           /\ tasks[t].c.id \notin StoredIds

\* C18: every Connection in the settings store has a serviceAccountPath
\* exactly when its authMode is serviceAccountPath.
C18_PathIffServiceAccount ==
    \A i \in 1..Len(store) :
        (store[i].serviceAccountPath # "") <=>
            (store[i].authMode = "serviceAccountPath")

\* C18's case: the command has added a service-account connection and a
\* connection of another mode
C18_Witness ==
    \E i \in 1..Len(store), j \in 1..Len(store) :
        /\ store[i].id \notin ConnIds /\ store[j].id \notin ConnIds
        /\ store[i].authMode = "serviceAccountPath"
        /\ store[i].serviceAccountPath = OtherKeyPath
        /\ store[j].authMode \in {"adc", "googleOAuth"}
        /\ wizard.pc = "idle"

OpenPanels(k) == {p \in 1..Len(wpanels) : wpanels[p].open /\ wpanels[p].key = k}

\* C19: at most one webview panel is open per panelKey.
C19_OneOpenPanelPerKey ==
    \A k \in PanelKeys : Cardinality(OpenPanels(k)) <= 1

Visited == {pager.visited[i] : i \in 1..Len(pager.visited)}

\* C20: while a collection is listed page by page, each page holds at most
\* pageSize documents, the documents visited so far are the lowest ids of the
\* collection, each once and in ascending order, and hasMore is true exactly
\* when documents of the collection have not been visited yet; so when
\* hasMore is false every document has been visited exactly once.
C20_PagesVisitEachDocumentOnce ==
    pager.pc = "listed"
    => /\ Len(pager.page) <= pager.pageSize
       /\ \A i \in 1..Len(pager.visited), j \in 1..Len(pager.visited) :
              i < j => pager.visited[i] < pager.visited[j]
       /\ Visited \subseteq pager.coll
       /\ \A d \in pager.coll \ Visited : \A v \in Visited : v < d
       /\ pager.hasMore <=> (pager.coll \ Visited # {})
       /\ pager.hasMore => pager.page # <<>>

\* C20's case: a collection of four documents was listed in two full pages of
\* two
C20_Witness ==
    /\ pager.pc = "listed"
    /\ pager.pageSize = 2
    /\ Cardinality(pager.coll) = 4
    /\ pager.cursor # 0
    /\ ~pager.hasMore
    /\ Len(pager.visited) = 4

\* C21: getFirestoreClient returns at once, with the cached client and
\* without constructing anything, exactly when firestoreCache holds an
\* entry for the record's id and databaseId; a call that returns a client
\* leaves it cached under its own key and replaces no other entry; and two
\* records with the same id and different databaseIds get two distinct
\* data clients.
C21_KeyedByIdAndDatabase ==
    [][\A u \in Tasks :
          LET tk == tasks'[u] IN
          /\ (Issues(u) /\ tk.op = "getFirestoreClient")
             => /\ OHas(firestoreCache, cacheKey(tk.c))
                   <=> (tk.pc = "done" /\ tk.err = "")
                /\ OHas(firestoreCache, cacheKey(tk.c))
                   => /\ tk.res = OGet(firestoreCache, cacheKey(tk.c))
                      /\ CachesUnchanged
          /\ (Settles(u) /\ tk.op = "getFirestoreClient" /\ tk.err = "")
             => /\ OHas(firestoreCache', cacheKey(tk.c))
                /\ OGet(firestoreCache', cacheKey(tk.c)) = tk.res
                /\ \A i \in 1..Len(firestoreCache) :
                       firestoreCache[i].key # cacheKey(tk.c)
                       => /\ OHas(firestoreCache', firestoreCache[i].key)
                          /\ OGet(firestoreCache', firestoreCache[i].key) =
                                 firestoreCache[i].val
                /\ \A t \in Tasks :
                       (/\ IsCall(t, "getFirestoreClient") /\ Ok(t)
                        /\ tasks[t].c.id = tk.c.id
                        /\ tasks[t].c.databaseId # tk.c.databaseId)
                       => tasks[t].res # tk.res]_vars

\* C21's case: the default and a named database of one connection id were
\* resolved, and both data clients are cached side by side
C21_Witness ==
    \E t \in Tasks, u \in Tasks :
        /\ IsCall(t, "getFirestoreClient") /\ IsCall(u, "getFirestoreClient")
        /\ Ok(t) /\ Ok(u)
        /\ tasks[t].c.id = tasks[u].c.id
        /\ tasks[t].c.databaseId = DefaultDb /\ tasks[u].c.databaseId = <<"db2">>
        /\ tasks[t].res # tasks[u].res
        /\ OHas(firestoreCache, cacheKey(tasks[t].c))
        /\ OHas(firestoreCache, cacheKey(tasks[u].c))

\* C22: disposeConnection(a) invokes a shutdown hook only on clients of
\* connection a, and a cache entry leaves a cache only while a
\* disposeConnection of the entry's own connection awaits its hook.
C22_DisposeConnectionIsIndependent ==
    [][/\ \A t \in Tasks :
              (/\ tasks'[t].op = "disposeConnection"
               /\ tasks'[t].pc \in {"dc_app", "dc_fs"})
              => clients'[tasks'[t].h].id = tasks'[t].c.id
       /\ \A x \in Entries :
              (\A y \in Entries' : ~(y.kind = x.kind /\ y.key = x.key))
              => \E t \in Tasks :
                     /\ tasks[t].op = "disposeConnection"
                     /\ tasks[t].pc \in {"dc_app", "dc_fs"}
                     /\ tasks[t].h = x.h
                     /\ tasks[t].c.id = clients[x.h].id]_vars

\* C23: when a getFirestoreClient(c) succeeds and nothing was disposed, the
\* prerequisite of its client is cached under c.id in exactly one cache: in
\* appCache for a non-OAuth connection (the app the data client was derived
\* from, which getApp(c) then returns without touching a cache), in
\* oauthClientCache for an OAuth connection (the OAuth client a getAccessToken(c)
\* then uses, without reading the secret again).
C23_OnePrerequisiteEntry ==
    [][\A u \in Tasks :
          LET tk == tasks'[u]
              id == tk.c.id IN
          /\ (Settles(u) /\ tk.op = "getFirestoreClient" /\ tk.err = "")
             => IF isOAuthConnection(tk.c)
                THEN /\ MapHas(oauthClientCache', id)
                     /\ clients'[tk.res].cred = "oauth"
                     /\ ~MapHas(appCache', id)
                ELSE /\ MapHas(appCache', id)
                     /\ clients'[tk.res].via = appCache'[id]
                     /\ ~MapHas(oauthClientCache', id)
          /\ (Issues(u) /\ tk.op = "getApp" /\ MapHas(appCache, id))
             => /\ tk.pc = "done" /\ tk.err = ""
                /\ tk.res = appCache[id]
                /\ CachesUnchanged
          /\ (Issues(u) /\ tk.op = "getAccessToken"
                /\ MapHas(oauthClientCache, id))
             => /\ tk.pc = "gat_client"
                /\ tk.h = oauthClientCache[id]
                /\ "secrets.get" \notin tk.io
                /\ CachesUnchanged]_vars

\* C23's case: a data client was resolved for an ADC and for an OAuth
\* connection, and getApp then returned the app the ADC one was derived from
C23_Witness ==
    \E t \in Tasks, u \in Tasks, v \in Tasks :
        /\ IsCall(t, "getFirestoreClient") /\ Ok(t) /\ tasks[t].c = ConnA
        /\ IsCall(u, "getApp") /\ Ok(u) /\ tasks[u].c = ConnA
        /\ t \in tasks[u].seen
        /\ tasks[u].res = clients[tasks[t].res].via
        /\ IsCall(v, "getFirestoreClient") /\ Ok(v) /\ tasks[v].c = ConnO
        /\ oauthClientCache[ConnO.id] = clients[tasks[v].res].via
        /\ DOMAIN appCache = {ConnA.id}

\* C24: an admin client with Application Default Credentials is only ever
\* returned for a connection whose authMode is "adc"; a getApp for a
\* "serviceAccountPath" connection returns a client made from the key file
\* or fails.
C24_AdcOnlyForAdcMode ==
    \A t \in Tasks :
        (IsCall(t, "getApp") /\ Ok(t) /\ clients[tasks[t].res].cred = "adc")
        => tasks[t].c.authMode = "adc"

\* C25: a getFirestoreClient or getApp never returns a client whose shutdown
\* hook was invoked before the call returned.
C25_NoDisposedHandleReturned ==
    [][\A u \in Tasks :
          (/\ Settles(u) /\ tasks'[u].op \in {"getFirestoreClient", "getApp"}
           /\ tasks'[u].err = "")
          => ~clients'[tasks'[u].res].closed]_vars

\* the refresh token a settled call worked with: that of the data client it
\* returned, or the one its access token was requested with
TokenUsed(t) ==
    IF tasks[t].op = "getFirestoreClient" THEN clients[tasks[t].res].token
    ELSE tasks[t].res

\* C26: a successful getFirestoreClient or getAccessToken on an OAuth
\* connection, called while a refresh token is stored, uses the stored token.
C26_UsesStoredToken ==
    \A t \in Tasks :
        (/\ Ok(t) /\ tasks[t].op \in {"getFirestoreClient", "getAccessToken"}
         /\ isOAuthConnection(tasks[t].c)
         /\ tasks[t].sec # 0)
        => TokenUsed(t) = tasks[t].sec

\* what getSessions() would return now
ListedSessions == IF sessions = <<>> THEN RestoredSessions ELSE sessions

\* C27: getSessions() lists a session exactly when getRefreshToken() finds a
\* token: a removeSession leaves the refresh token stored while a session is
\* still listed.
C27_SessionListedIffTokenStored ==
    ListedSessions # <<>> <=> secret # 0

\* C28: the pending sign-in is resolved with a code only by a /callback
\* request whose state parameter is the state generated for the sign-in.
C28_CodeOnlyWithMatchingState ==
    [][(flow.pc = "waiting" /\ flow'.pc = "exchanging")
       => (flow'.reqPath = "/callback" /\ flow'.reqState = flow.state)]_vars

\* C29: a press on Next requests the next page, and when Next is disabled
\* after nothing but Next presses from the first page, each made after the
\* page before was shown, the pages shown hold every document of the
\* collection exactly once.
C29_NextShowsEachDocumentOnce ==
    [][/\ table'.presses > table.presses
          => Len(table'.pending) > Len(table.pending)
       /\ (/\ table'.pc = "open" /\ table'.plain
           /\ table'.pending = <<>> /\ ~table'.nextEnabled)
          => /\ Len(table'.shown) = Cardinality(table'.coll)
             /\ {table'.shown[i] : i \in 1..Len(table'.shown)} = table'.coll]_vars

\* C30: parseUri of the URI built for a connection id and a document path
\* returns that connection id and that document path.
C30_UriRoundTrip ==
    fsp.pc = "read"
    => /\ fsp.parsed.err = ""
       /\ fsp.parsed.connectionId = fsp.connectionId
       /\ fsp.parsed.docPath = fsp.docPath
====
